---- MODULE Spec2Model ----
(***************************************************************************)
(* A model of twill/utils.py: the ResultWrapper (forms list, form lookup,  *)
(* link lookup), make_boolean, set_form_control_value and unique_match.    *)
(*                                                                         *)
(* Python strings are modelled as sequences of one-character strings, so   *)
(* that lower(), strip(), startswith(), int() and re.search() are computed *)
(* rather than assumed.  Python's None is the value None below, which no   *)
(* string equals.  An operation's outcome is a record [exc, val]: exc is   *)
(* "none" for a normal return and the exception's class name otherwise.    *)
(***************************************************************************)
EXTENDS Integers, Sequences, FiniteSets, TLC

VARIABLES
    doc,        \* the parsed document: its top-level nodes, in document order
    forms,      \* ResultWrapper.forms
    controls,   \* the controls of the form that set_form_control_value works on
    ret         \* the last call: its name, its arguments, the state before, its outcome

vars == <<doc, forms, controls, ret>>

\* ------------------------------------------------------------ bounds
MaxBoolLen == 3
MaxMatches == 3
MaxBoxes == 3
MaxOptions == 2
MaxNodes == 3
MaxAnchors == 3

\* ------------------------------------------------------------ strings
None == <<"<None>">>

Str(S, n) == UNION {[1..k -> S] : k \in 0..n}

IsDigit(c) == c \in {"0", "1", "2", "3", "4", "5", "6", "7", "8", "9"}

DigitVal(c) ==
    CASE c = "0" -> 0 [] c = "1" -> 1 [] c = "2" -> 2 [] c = "3" -> 3
      [] c = "4" -> 4 [] c = "5" -> 5 [] c = "6" -> 6 [] c = "7" -> 7
      [] c = "8" -> 8 [] c = "9" -> 9

IsSpace(c) == c \in {" ", "\t", "\n"}

LowerChar(c) ==
    CASE c = "A" -> "a" [] c = "E" -> "e" [] c = "F" -> "f" [] c = "L" -> "l"
      [] c = "N" -> "n" [] c = "O" -> "o" [] c = "R" -> "r" [] c = "S" -> "s"
      [] c = "T" -> "t" [] c = "U" -> "u"
      [] OTHER -> c

\* str.lower()
Lower(s) == [i \in 1..Len(s) |-> LowerChar(s[i])]

\* str.strip()
Strip(s) ==
    LET keep == {i \in 1..Len(s) : ~IsSpace(s[i])}
    IN  IF keep = {} THEN <<>>
        ELSE LET lo == CHOOSE i \in keep : \A j \in keep : i <= j
                 hi == CHOOSE i \in keep : \A j \in keep : j <= i
             IN  SubSeq(s, lo, hi)

\* str.startswith(c) for a one-character prefix
StartsWith(s, c) == Len(s) >= 1 /\ s[1] = c

\* int(s) succeeds: optional surrounding whitespace, an optional sign, digits
IsIntLiteral(s) ==
    LET t == Strip(s)
        d == IF StartsWith(t, "+") \/ StartsWith(t, "-") THEN Tail(t) ELSE t
    IN  Len(d) >= 1 /\ \A i \in 1..Len(d) : IsDigit(d[i])

RECURSIVE DigitsVal(_)
DigitsVal(d) ==
    IF d = <<>> THEN 0
    ELSE 10 * DigitsVal(SubSeq(d, 1, Len(d) - 1)) + DigitVal(d[Len(d)])

\* int(s) for a string that is an integer literal
IntOf(s) ==
    LET t == Strip(s)
    IN  IF StartsWith(t, "-") THEN 0 - DigitsVal(Tail(t))
        ELSE IF StartsWith(t, "+") THEN DigitsVal(Tail(t))
        ELSE DigitsVal(t)

Returned(v) == [exc |-> "none", val |-> v]
Raised(e) == [exc |-> e, val |-> None]

\* ------------------------------------------------------------ make_boolean
MakeBooleanPositiveOnly(value) ==
    LET v == Strip(Lower(value))
    IN  IF v \in {<<"t", "r", "u", "e">>, <<"f", "a", "l", "s", "e">>}
        THEN Returned(v = <<"t", "r", "u", "e">>)
        ELSE IF IsIntLiteral(v) THEN Returned(IntOf(v) > 0)
        ELSE IF v \in {<<"+">>, <<"-">>} THEN Returned(v = <<"+">>)
        ELSE IF v \in {<<"o", "n">>, <<"o", "f", "f">>} THEN Returned(v = <<"o", "n">>)
        ELSE Raised("TwillException")

make_boolean(value) ==
    LET v == Strip(Lower(value))
    IN  IF v \in {<<"t", "r", "u", "e">>, <<"f", "a", "l", "s", "e">>}
        THEN Returned(v = <<"t", "r", "u", "e">>)
        ELSE IF IsIntLiteral(v) THEN Returned(IntOf(v) # 0)
        ELSE IF v \in {<<"+">>, <<"-">>} THEN Returned(v = <<"+">>)
        ELSE IF v \in {<<"o", "n">>, <<"o", "f", "f">>} THEN Returned(v = <<"o", "n">>)
        ELSE Raised("TwillException")

\* the inputs make_boolean is applied to
BoolChars == {"0", "1", "-", "+", " ", "o", "n", "T"}

BoolSamples ==
    { <<"t", "r", "u", "e">>, <<"T", "r", "u", "e">>, <<"T", "R", "U", "E">>,
      <<" ", "t", "r", "u", "e", " ">>, <<"f", "a", "l", "s", "e">>,
      <<"F", "a", "l", "s", "e">>, <<"F", "A", "L", "S", "E", "\n">>,
      <<"o", "f", "f">>, <<"O", "F", "F">>, <<"O", "n">>, <<"\t", "o", "n">>,
      <<"m", "a", "y", "b", "e">>, <<"t", "r", "u">>, <<"t", "r", "u", "e", "e">>,
      <<"t", " ", "r", "u", "e">>, <<"o", "f">>, <<"y", "e", "s">>,
      <<"-", "1", "0">>, <<"0", "0", "0">>, <<" ", "-", "0", " ">>,
      <<"1", " ", "0">>, <<"-", " ", "1">>, <<"1", ".", "0">>, <<"0", "x", "1">> }

BoolInputs == BoolSamples \cup Str(BoolChars, MaxBoolLen)

\* a call that has been given its arguments and has not run yet
Pending == [exc |-> "pending", val |-> None]

InitBool ==
    /\ doc = <<>>
    /\ forms = <<>>
    /\ controls = <<>>
    /\ \E s \in BoolInputs : ret = [op |-> "make_boolean", value |-> s, out |-> Pending]

MakeBoolean ==
    /\ ret.op = "make_boolean"
    /\ ret.out.exc = "pending"
    /\ ret' = [ret EXCEPT !.out = make_boolean(ret.value)]
    /\ UNCHANGED <<doc, forms, controls>>

NextBool == MakeBoolean

SpecBool == InitBool /\ [][NextBool]_vars

BoolDone == ret.op = "make_boolean" /\ ret.out.exc # "pending"

\* C9: make_boolean lower-cases and trims its input, then returns true for "true"
\* and false for "false"; otherwise, for an integer literal, true exactly when the
\* integer is nonzero; otherwise true for "+" and false for "-"; otherwise true for
\* "on" and false for "off"; and raises the conversion error for every other
\* input ("True", "0", "-1", "-", "on", "maybe" and "" as the specification lists).
C9_MakeBoolean ==
    BoolDone =>
        LET v == Strip(Lower(ret.value))
            isTrue == v = <<"t", "r", "u", "e">>
            isFalse == v = <<"f", "a", "l", "s", "e">>
            isInt == ~isTrue /\ ~isFalse /\ IsIntLiteral(v)
        IN  /\ isTrue => ret.out = Returned(TRUE)
            /\ isFalse => ret.out = Returned(FALSE)
            /\ isInt => ret.out = Returned(IntOf(v) # 0)
            /\ v = <<"+">> => ret.out = Returned(TRUE)
            /\ v = <<"-">> => ret.out = Returned(FALSE)
            /\ v = <<"o", "n">> => ret.out = Returned(TRUE)
            /\ v = <<"o", "f", "f">> => ret.out = Returned(FALSE)
            /\ (~isTrue /\ ~isFalse /\ ~isInt
                    /\ v \notin {<<"+">>, <<"-">>, <<"o", "n">>, <<"o", "f", "f">>})
                 => ret.out = Raised("TwillException")
            /\ ret.value = <<"T", "r", "u", "e">> => ret.out = Returned(TRUE)
            /\ ret.value = <<"0">> => ret.out = Returned(FALSE)
            /\ ret.value = <<"-", "1">> => ret.out = Returned(TRUE)
            /\ ret.value = <<"m", "a", "y", "b", "e">> => ret.out = Raised("TwillException")
            /\ ret.value = <<>> => ret.out = Raised("TwillException")

C9_Witness ==
    /\ BoolDone
    /\ ret.value = <<" ", "-", "1">>
    /\ ret.out = Returned(TRUE)

\* ------------------------------------------------------------ unique_match
\* A matched control: type is the control's type attribute, Absent for an element
\* that has none (a select or a textarea); name and value are None when the
\* element carries no such attribute.
Absent == "<absent>"

RECURSIVE SubmitLoop(_, _, _, _)
SubmitLoop(matches, i, name, value) ==
    IF i > Len(matches) THEN Returned(TRUE)
    ELSE LET match == matches[i]
         IN  IF match.type = Absent THEN Raised("AttributeError")
             ELSE IF match.type \notin {"submit", "hidden"} THEN Returned(FALSE)
             ELSE IF name = None THEN SubmitLoop(matches, i + 1, match.name, match.value)
             ELSE IF match.name # name \/ match.value # value THEN Returned(FALSE)
             ELSE SubmitLoop(matches, i + 1, name, value)

_all_the_same_submit(matches) == SubmitLoop(matches, 1, None, None)

RECURSIVE CheckboxLoop(_, _, _)
CheckboxLoop(matches, i, name) ==
    IF i > Len(matches) THEN Returned(TRUE)
    ELSE LET match == matches[i]
         IN  IF match.type = Absent THEN Raised("AttributeError")
             ELSE IF match.type \notin {"checkbox", "hidden"} THEN Returned(FALSE)
             ELSE IF name = None THEN CheckboxLoop(matches, i + 1, match.name)
             ELSE IF match.name # name THEN Returned(FALSE)
             ELSE CheckboxLoop(matches, i + 1, name)

_all_the_same_checkbox(matches) == CheckboxLoop(matches, 1, None)

\* a or b, as Python evaluates it: b only when a is false, an exception passing through
OrElse(a, b) == IF a.exc # "none" \/ a.val THEN a ELSE b

UniqueMatchSubmitOnly(matches) ==
    OrElse(Returned(Len(matches) = 1), _all_the_same_submit(matches))

unique_match(matches) ==
    OrElse(Returned(Len(matches) = 1),
           OrElse(_all_the_same_checkbox(matches), _all_the_same_submit(matches)))

MatchTypes == {"submit", "hidden", "checkbox", "text", Absent}
MatchNames == {None, <<"a">>, <<"b">>}
MatchValues == {<<"x">>, <<"y">>}
MatchControls == [type : MatchTypes, name : MatchNames, value : MatchValues]
MatchSets == Str(MatchControls, MaxMatches)

InitUnique ==
    /\ doc = <<>>
    /\ forms = <<>>
    /\ controls = <<>>
    /\ \E ms \in MatchSets : ret = [op |-> "unique_match", matches |-> ms, out |-> Pending]

UniqueMatch ==
    /\ ret.op = "unique_match"
    /\ ret.out.exc = "pending"
    /\ ret' = [ret EXCEPT !.out = unique_match(ret.matches)]
    /\ UNCHANGED <<doc, forms, controls>>

NextUnique == UniqueMatch

SpecUnique == InitUnique /\ [][NextUnique]_vars

UniqueDone == ret.op = "unique_match" /\ ret.out.exc # "pending"

AllTypesIn(ms, T) == \A i \in 1..Len(ms) : ms[i].type \in T
SameName(ms) == \A i, j \in 1..Len(ms) : ms[i].name = ms[j].name
SameValue(ms) == \A i, j \in 1..Len(ms) : ms[i].value = ms[j].value
TwoHiddenSameName(ms) ==
    Len(ms) = 2 /\ AllTypesIn(ms, {"hidden"}) /\ SameName(ms)

\* C3 as stated: for two hidden controls that share a name, unique_match returns
\* true when their values are identical and false when they differ.
C3_Original ==
    (UniqueDone /\ TwoHiddenSameName(ret.matches))
        => ret.out = Returned(SameValue(ret.matches))

\* C3 as amended: for two hidden controls that share a name, unique_match returns
\* true whether their values are identical or differ.
C3_HiddenPairUnique ==
    (UniqueDone /\ TwoHiddenSameName(ret.matches)) => ret.out = Returned(TRUE)

C3_Witness ==
    /\ UniqueDone
    /\ ret.matches = << [type |-> "hidden", name |-> <<"a">>, value |-> <<"x">>],
                        [type |-> "hidden", name |-> <<"a">>, value |-> <<"y">>] >>
    /\ ret.out = Returned(TRUE)

\* C4: for every match set, unique_match returns true if and only if the set has
\* exactly one member, or every member is a submit or hidden control and all share
\* one name and one value, or every member is a checkbox or hidden control and all
\* share one name; in every other case it returns false.
C4_UniqueIff ==
    UniqueDone =>
        ret.out = Returned(
            \/ Len(ret.matches) = 1
            \/ /\ AllTypesIn(ret.matches, {"submit", "hidden"})
               /\ SameName(ret.matches)
               /\ SameValue(ret.matches)
            \/ /\ AllTypesIn(ret.matches, {"checkbox", "hidden"})
               /\ SameName(ret.matches))

\* ------------------------------------------------------------ set_form_control_value
\* A control is one of
\*   [kind |-> "input", type, name, value, checked]   an <input>: value is its value
\*       attribute (None when it has none), checked whether it has a checked attribute;
\*   [kind |-> "group", name, boxes]                  an lxml CheckboxGroup: the
\*       same-named checkboxes in document order, each [value, checked];
\*   [kind |-> "select", name, multiple, options]     an lxml SelectElement: its
\*       option children in document order, each [text, value, selected];
\*   [kind |-> "textarea", name, value]               an element with no type attribute
\*       that is neither a group nor a select.

\* CheckboxGroup.value as a set: the value attributes of the checked boxes
GroupValue(control) ==
    {control.boxes[i].value : i \in {j \in 1..Len(control.boxes) : control.boxes[j].checked}}

FirstIndex(S) == CHOOSE i \in S : \A j \in S : i <= j

\* CheckboxValues.add(value): check the first box with that value, KeyError if none
GroupAdd(control, value) ==
    LET hits == {i \in 1..Len(control.boxes) : control.boxes[i].value = value}
    IN  IF hits = {} THEN [control |-> control, out |-> Raised("KeyError")]
        ELSE [control |-> [control EXCEPT !.boxes[FirstIndex(hits)].checked = TRUE],
              out |-> Returned(None)]

\* CheckboxValues.remove(value): uncheck the first box with that value; KeyError if
\* there is none or it is not checked
GroupRemove(control, value) ==
    LET hits == {i \in 1..Len(control.boxes) : control.boxes[i].value = value}
    IN  IF hits = {} \/ ~control.boxes[FirstIndex(hits)].checked
        THEN [control |-> control, out |-> Raised("KeyError")]
        ELSE [control |-> [control EXCEPT !.boxes[FirstIndex(hits)].checked = FALSE],
              out |-> Returned(None)]

\* an option's submit value as lxml computes it: the value attribute, else the
\* text, else '', stripped
OptionValue(option) ==
    LET v == IF option.value # None THEN option.value
             ELSE IF option.text # None THEN option.text ELSE <<>>
    IN  Strip(v)

\* SelectElement.value_options
ValueOptions(control) == [i \in 1..Len(control.options) |-> OptionValue(control.options[i])]

\* SelectElement.value of a multiple select, as a set
SelectValue(control) ==
    {OptionValue(control.options[i]) :
        i \in {j \in 1..Len(control.options) : control.options[j].selected}}

\* MultipleSelectOptions.add(item)
SelectAdd(control, item) ==
    LET hits == {i \in 1..Len(control.options) : OptionValue(control.options[i]) = item}
    IN  IF hits = {} THEN [control |-> control, out |-> Raised("ValueError")]
        ELSE [control |-> [control EXCEPT !.options[FirstIndex(hits)].selected = TRUE],
              out |-> Returned(None)]

\* MultipleSelectOptions.remove(item)
SelectRemove(control, item) ==
    LET hits == {i \in 1..Len(control.options) : OptionValue(control.options[i]) = item}
    IN  IF hits = {} \/ ~control.options[FirstIndex(hits)].selected
        THEN [control |-> control, out |-> Raised("ValueError")]
        ELSE [control |-> [control EXCEPT !.options[FirstIndex(hits)].selected = FALSE],
              out |-> Returned(None)]

SetInputNoCatch(control, value) ==
    IF control.type = "checkbox"
    THEN LET b == make_boolean(value)
         IN  IF b.exc # "none" THEN {[control |-> control, out |-> b]}
             ELSE {[control |-> [control EXCEPT !.checked = b.val], out |-> Returned(None)]}
    ELSE IF control.type \notin {"submit", "image"}
    THEN {[control |-> [control EXCEPT !.value = value], out |-> Returned(None)]}
    ELSE {[control |-> control, out |-> Returned(None)]}

\* lines 212-224: a control that has a type attribute
SetInput(control, value) ==
    IF control.type = "checkbox"
    THEN LET b == make_boolean(value)
         IN  IF b.exc # "none" THEN {[control |-> control, out |-> Returned(None)]}
             ELSE {[control |-> [control EXCEPT !.checked = b.val], out |-> Returned(None)]}
    ELSE IF control.type \notin {"submit", "image"}
    THEN {[control |-> [control EXCEPT !.value = value], out |-> Returned(None)]}
    ELSE {[control |-> control, out |-> Returned(None)]}

SetGroupNoCatch(control, value) ==
    IF StartsWith(value, "-")
    THEN {GroupRemove(control, Tail(value))}
    ELSE LET v == IF StartsWith(value, "+") THEN Tail(value) ELSE value
         IN  {GroupAdd(control, v)}

\* lines 226-236: a CheckboxGroup
SetGroup(control, value) ==
    IF StartsWith(value, "-")
    THEN LET r == GroupRemove(control, Tail(value))
         IN  {[control |-> r.control, out |-> Returned(None)]}
    ELSE LET v == IF StartsWith(value, "+") THEN Tail(value) ELSE value
         IN  {GroupAdd(control, v)}

\* lines 238-270: a SelectElement.  dict(zip(option_names, options)) keeps the last
\* option of each display name; the loop takes whichever matching entry the
\* dictionary's iteration yields first, so every matching entry is a possible outcome.
SetSelect(control, value) ==
    LET add == ~StartsWith(value, "-")
        v == IF StartsWith(value, "-") \/ StartsWith(value, "+") THEN Tail(value) ELSE value
        n == Len(control.options)
        options == [i \in 1..n |-> Strip(ValueOptions(control)[i])]
    IN  IF \E i \in 1..n : control.options[i].text = None
        THEN {[control |-> control, out |-> Raised("AttributeError")]}
        ELSE LET option_names == [i \in 1..n |-> Strip(control.options[i].text)]
                 kept == {i \in 1..n : \A j \in 1..n : option_names[j] = option_names[i] => j <= i}
                 hits == {i \in kept : v = option_names[i] \/ v = options[i]}
             IN  IF hits = {}
                 THEN {[control |-> control, out |-> Raised("TwillException")]}
                 ELSE IF ~control.multiple
                 THEN {[control |-> control, out |-> Raised("AttributeError")]}
                 ELSE IF add
                 THEN {SelectAdd(control, options[i]) : i \in hits}
                 ELSE {[control |-> SelectRemove(control, options[i]).control,
                        out |-> Returned(None)] : i \in hits}

set_form_control_value(control, value) ==
    IF control.kind = "input" THEN SetInput(control, value)
    ELSE IF control.kind = "group" THEN SetGroup(control, value)
    ELSE IF control.kind = "select" THEN SetSelect(control, value)
    ELSE {[control |-> control, out |-> Raised("TwillException")]}

\* the values scripts assign
SetChars == {"+", "-", "r"}
SetSamples ==
    { <<"b">>, <<"+", "b">>, <<"-", "b">>, <<"R">>, <<"+", "R">>, <<"-", "R">>,
      <<"P">>, <<"0">>, <<"t", "r", "u", "e">>, <<"O", "f", "f">>,
      <<"m", "a", "y", "b", "e">> }
SetValues == SetSamples \cup Str(SetChars, 2)

Names == {<<"s">>, <<"t">>}
AttrValues == {None, <<"0">>, <<"r">>}

Inputs ==
    [kind : {"input"}, type : {"checkbox"}, name : Names, value : AttrValues,
     checked : BOOLEAN]
    \cup [kind : {"input"}, type : {"text", "hidden", "submit", "image"}, name : Names,
          value : AttrValues, checked : {FALSE}]

Boxes == [value : {None, <<"r">>, <<"b">>}, checked : BOOLEAN]
Groups ==
    [kind : {"group"}, name : {<<"s">>},
     boxes : UNION {[1..k -> Boxes] : k \in 2..MaxBoxes}]

Options ==
    [text : {None, <<"R">>, <<" ", "r">>}, value : {None, <<"r">>, <<"b">>},
     selected : BOOLEAN]
Selects ==
    [kind : {"select"}, name : {<<"s">>}, multiple : BOOLEAN,
     options : UNION {[1..k -> Options] : k \in 0..MaxOptions}]

Textareas == [kind : {"textarea"}, name : {<<"s">>}, value : {<<"r">>}]

\* the form holds the control that is assigned to, followed by a hidden input
Sentinels == [kind : {"input"}, type : {"hidden"}, name : Names, value : {<<"0">>},
              checked : {FALSE}]

SetFormControlValue ==
    \E value \in SetValues :
        \E r \in set_form_control_value(Head(controls), value) :
            /\ controls' = <<r.control>> \o Tail(controls)
            /\ ret' = [op |-> "set_form_control_value", value |-> value,
                       pre |-> controls, out |-> r.out]
            /\ UNCHANGED <<doc, forms>>

SetDone == ret.op = "set_form_control_value"

\* the value a '+'/'-' prefixed assignment names, and whether it removes
Unprefixed(value) ==
    IF StartsWith(value, "-") \/ StartsWith(value, "+") THEN Tail(value) ELSE value
Removes(value) == StartsWith(value, "-")

\* InputElement.value as lxml reports it: a checkbox reads None unless checked
InputValue(control) ==
    IF control.type = "checkbox"
    THEN IF ~control.checked THEN None
         ELSE IF control.value \in {None, <<>>} THEN <<"o", "n">> ELSE control.value
    ELSE control.value

\* the control as unique_match reads it
MatchView(control) ==
    [type |-> control.type, name |-> control.name, value |-> InputValue(control)]

InitCheckbox ==
    /\ doc = <<>>
    /\ forms = <<>>
    /\ \E c \in Inputs \cup Groups, h \in Sentinels : controls = <<c, h>>
    /\ ret = [op |-> "none"]

NextCheckbox == SetFormControlValue

SpecCheckbox == InitCheckbox /\ [][NextCheckbox]_vars

OnCheckbox == SetDone /\ Head(ret.pre).kind = "input" /\ Head(ret.pre).type = "checkbox"
OnGroup == SetDone /\ Head(ret.pre).kind = "group"

HasBox(control, v) == \E i \in 1..Len(control.boxes) : control.boxes[i].value = v
DistinctBoxes(control) ==
    \A i, j \in 1..Len(control.boxes) :
        control.boxes[i].value = control.boxes[j].value => i = j

\* C6 as stated: on a checkbox group with value set S, "+v" or "v" yields S \cup {v}
\* and "-v" yields S \ {v}, never raising.
C6_Original ==
    OnGroup =>
        LET S == GroupValue(Head(ret.pre))
            v == Unprefixed(ret.value)
        IN  /\ ret.out = Returned(None)
            /\ GroupValue(Head(controls)) =
                    IF Removes(ret.value) THEN S \ {v} ELSE S \cup {v}

\* C6 as amended: "+v" or "v" yields S \cup {v} when some checkbox of the group has
\* value v and otherwise raises KeyError leaving S unchanged; "-v" never raises,
\* removes nothing but v, and yields S \ {v} when the group's checkboxes have
\* pairwise distinct values; the rest of the form is untouched.
C6_GroupAssign ==
    OnGroup =>
        LET pre == Head(ret.pre)
            S == GroupValue(pre)
            T == GroupValue(Head(controls))
            v == Unprefixed(ret.value)
        IN  /\ (~Removes(ret.value) /\ HasBox(pre, v))
                    => ret.out = Returned(None) /\ T = S \cup {v}
            /\ (~Removes(ret.value) /\ ~HasBox(pre, v))
                    => ret.out = Raised("KeyError") /\ Head(controls) = pre
            /\ Removes(ret.value)
                    => ret.out = Returned(None) /\ T \subseteq S /\ (S \ {v}) \subseteq T
            /\ (Removes(ret.value) /\ DistinctBoxes(pre)) => T = S \ {v}
            /\ Tail(controls) = Tail(ret.pre)

C6_Witness ==
    /\ OnGroup
    /\ GroupValue(Head(ret.pre)) = {<<"b">>}
    /\ ret.value = <<"+", "r">>
    /\ ret.out = Returned(None)
    /\ GroupValue(Head(controls)) = {<<"b">>, <<"r">>}

\* C7: assigning to a single checkbox sets its checked state to make_boolean's
\* result when the value is boolean-like, and otherwise returns without raising and
\* leaves the checked state as it was; nothing else changes, so a hidden input of
\* the same name keeps its value and unique_match on the pair is true.
C7_CheckboxAssign ==
    OnCheckbox =>
        LET pre == Head(ret.pre)
            post == Head(controls)
            b == make_boolean(ret.value)
            hidden == controls[2]
        IN  /\ ret.out = Returned(None)
            /\ post.checked = IF b.exc = "none" THEN b.val ELSE pre.checked
            /\ [post EXCEPT !.checked = pre.checked] = pre
            /\ Tail(controls) = Tail(ret.pre)
            /\ hidden.name = post.name
                    => unique_match(<<MatchView(post), MatchView(hidden)>>) = Returned(TRUE)
            /\ (ret.value = <<"t", "r", "u", "e">>) => post.checked /\ hidden.value = <<"0">>

C7_Witness ==
    /\ OnCheckbox
    /\ ~Head(ret.pre).checked
    /\ ret.value = <<"t", "r", "u", "e">>
    /\ Head(controls).checked
    /\ controls[2] = [kind |-> "input", type |-> "hidden", name |-> Head(controls).name,
                       value |-> <<"0">>, checked |-> FALSE]

InitSelect ==
    /\ doc = <<>>
    /\ forms = <<>>
    /\ \E c \in Selects \cup Textareas, h \in Sentinels : controls = <<c, h>>
    /\ ret = [op |-> "none"]

NextSelect == SetFormControlValue

SpecSelect == InitSelect /\ [][NextSelect]_vars

OnSelect == SetDone /\ Head(ret.pre).kind = "select"

\* the options whose trimmed display text or trimmed submit value is v
Resolves(control, v) ==
    {i \in 1..Len(control.options) :
        \/ control.options[i].text # None /\ Strip(control.options[i].text) = v
        \/ OptionValue(control.options[i]) = v}

\* C5: on a select (single or multi), with the '+'/'-' prefix stripped, a value that
\* equals an option's trimmed display text or trimmed submit value adds that
\* option's submit value to the selection (removes it for '-', a no-op when it is
\* not selected); a value that equals none fails with the invalid-value error and
\* leaves the selection unchanged.
C5_SelectAssign ==
    OnSelect =>
        LET pre == Head(ret.pre)
            S == SelectValue(pre)
            T == SelectValue(Head(controls))
            hits == Resolves(pre, Unprefixed(ret.value))
        IN  IF hits = {}
            THEN ret.out = Raised("TwillException") /\ Head(controls) = pre
            ELSE /\ ret.out = Returned(None)
                 /\ \E i \in hits :
                        T = IF Removes(ret.value)
                            THEN S \ {OptionValue(pre.options[i])}
                            ELSE S \cup {OptionValue(pre.options[i])}

\* ------------------------------------------------------------ ResultWrapper
\* The document is the sequence of its elements that the wrapper looks at, in
\* document order: <form> elements, [tag |-> "form", id, name, children] with the
\* controls they enclose; controls outside any form, [tag, name] with tag one of
\* input, select, textarea, button; and anchors, [tag |-> "a", text, href].

\* re.compile(pattern) succeeds.  The patterns used are literal characters and '.',
\* plus two malformed shapes: a leading '+' (nothing to repeat) and an unclosed '('.
Compiles(pattern) ==
    /\ ~StartsWith(pattern, "+")
    /\ \A i \in 1..Len(pattern) : pattern[i] # "("

\* regex.search(string) finds a match, for a pattern that compiles
Search(pattern, string) ==
    \E k \in 0..(Len(string) - Len(pattern)) :
        \A i \in 1..Len(pattern) : pattern[i] = "." \/ pattern[i] = string[k + i]

IsForm(node) == node.tag = "form"

\* line 51: //input[not(ancestor::form)]
Orphans(nodes) == SelectSeq(nodes, LAMBDA n : n.tag = "input")

\* lines 53-58: the orphans serialized inside <form>...</form> and parsed again: a
\* form without id or name that holds a copy of each orphan, in order
SyntheticForm(orphans) ==
    [tag |-> "form", id |-> None, name |-> None, children |-> orphans]

ResultWrapperFormsAppended(nodes) ==
    LET orphans == Orphans(nodes)
        docforms == SelectSeq(nodes, IsForm)
    IN  IF orphans # <<>> THEN docforms \o <<SyntheticForm(orphans)>> ELSE docforms

\* lines 48-61: ResultWrapper.__init__ sets self.forms
ResultWrapperForms(nodes) ==
    LET orphans == Orphans(nodes)
        docforms == SelectSeq(nodes, IsForm)
    IN  IF orphans # <<>> THEN <<SyntheticForm(orphans)>> \o docforms ELSE docforms

\* ResultWrapper.form's result: the form at a position of self.forms, or None
Found(i) == [found |-> TRUE, index |-> i]
NotFound == [found |-> FALSE, index |-> 0]

\* lines 116-124: the number, for a formname that int() accepts
FormByNumber(fs, n) ==
    IF 0 <= n - 1 /\ n - 1 < Len(fs) THEN Returned(Found(n)) ELSE Returned(NotFound)

\* lines 98-124: ResultWrapper.form; formname is [isint |-> TRUE, n] or
\* [isint |-> FALSE, s]
form(fs, formname) ==
    IF formname.isint THEN FormByNumber(fs, formname.n)
    ELSE LET s == formname.s
             byId == {i \in 1..Len(fs) : fs[i].id \notin {None, <<>>} /\ fs[i].id = s}
             byName == {i \in 1..Len(fs) :
                           fs[i].name \notin {None, <<>>} /\ Search(s, fs[i].name)}
         IN  IF byId # {} THEN Returned(Found(FirstIndex(byId)))
             ELSE IF ~Compiles(s) THEN Raised("re.error")
             ELSE IF byName # {} THEN Returned(Found(FirstIndex(byName)))
             ELSE IF IsIntLiteral(s) THEN FormByNumber(fs, IntOf(s))
             ELSE Returned(NotFound)

\* lines 127-130: inner_tostring of an anchor without child elements: '%s' % text
inner_tostring(a) == IF a.text = None THEN <<"N", "o", "n", "e">> ELSE a.text

\* lines 84-88: ResultWrapper.links
Links(nodes) ==
    LET as == SelectSeq(nodes, LAMBDA n : n.tag = "a")
    IN  [i \in 1..Len(as) |-> [text |-> inner_tostring(as[i]), href |-> as[i].href]]

\* lines 90-96: ResultWrapper.find_link, from the i-th link on
RECURSIVE FindLinkLoop(_, _, _)
FindLinkLoop(links, i, pattern) ==
    IF i > Len(links) THEN Returned(<<>>)
    ELSE IF ~Compiles(pattern) THEN Raised("re.error")
    ELSE IF Search(pattern, links[i].text) THEN Returned(links[i].href)
    ELSE IF links[i].href = None THEN Raised("TypeError")
    ELSE IF Search(pattern, links[i].href) THEN Returned(links[i].href)
    ELSE FindLinkLoop(links, i + 1, pattern)

find_link(nodes, pattern) == FindLinkLoop(Links(nodes), 1, pattern)

\* the documents and the lookups made on them
Enclosed == {<<>>, <<[tag |-> "input", name |-> <<"q">>]>>}
FormNodes ==
    [tag : {"form"}, id : {None, <<"2">>}, name : {None, <<"a", "1">>}, children : Enclosed]
ControlNodes ==
    [tag : {"input"}, name : {<<"p">>, <<"q">>}]
    \cup [tag : {"select", "textarea", "button"}, name : {<<"p">>}]
AnchorNodes ==
    [tag : {"a"}, text : {None, <<"L", "o">>, <<"H">>},
     href : {None, <<"/", "l", "o">>, <<"/">>}]

FormNames ==
    [isint : {TRUE}, n : -1..(MaxNodes + 2)]
    \cup [isint : {FALSE},
          s : Str({"1", "2", "a", "."}, 2)
              \cup {<<"3">>, <<"0">>, <<"-", "1">>, <<" ", "2">>, <<"+", "1">>,
                    <<"+", "2">>, <<"(">>, <<"a", "1", "2">>}]

Patterns ==
    Str({"l", "o", "/", "."}, 2) \cup {<<"(">>, <<"+", "o">>, <<"H">>, <<"N", "o">>}

FormCalls == {[op |-> "form", formname |-> f, out |-> Pending] : f \in FormNames}
LinkCalls(P) == {[op |-> "find_link", pattern |-> p, out |-> Pending] : p \in P}

Form ==
    /\ ret.op = "form"
    /\ ret.out.exc = "pending"
    /\ ret' = [ret EXCEPT !.out = form(forms, ret.formname)]
    /\ UNCHANGED <<doc, forms, controls>>

FindLink ==
    /\ ret.op = "find_link"
    /\ ret.out.exc = "pending"
    /\ ret' = [ret EXCEPT !.out = find_link(doc, ret.pattern)]
    /\ UNCHANGED <<doc, forms, controls>>

NextWrapper == Form \/ FindLink

\* pages of forms and stray controls
InitForms ==
    /\ doc \in Str(FormNodes \cup ControlNodes, MaxNodes)
    /\ forms = ResultWrapperForms(doc)
    /\ controls = <<>>
    /\ ret \in FormCalls \cup LinkCalls({<<"a">>, <<"(">>})

SpecForms == InitForms /\ [][NextWrapper]_vars

FormDone == ret.op = "form" /\ ret.out.exc # "pending"

\* the identifier, used as a regular expression, finds a match in the string
Matches(pattern, string) == Compiles(pattern) /\ Search(pattern, string)

IdHits(s) == {i \in 1..Len(forms) : forms[i].id = s}
NameHits(s) == {i \in 1..Len(forms) : forms[i].name # None /\ Matches(s, forms[i].name)}
InRange(n) == 1 <= n /\ n <= Len(forms)

\* C1: form(identifier) with a string identifier returns the first form whose id
\* equals the identifier; else the first form whose name the identifier matches as
\* a regular-expression search; else the form at the identifier read as a 1-based
\* ordinal.  A later rule is used only when every earlier rule found no form.
C1_FormPriority ==
    (FormDone /\ ~ret.formname.isint) =>
        LET s == ret.formname.s
        IN  IF IdHits(s) # {} THEN ret.out = Returned(Found(FirstIndex(IdHits(s))))
            ELSE IF NameHits(s) # {}
            THEN ret.out = Returned(Found(FirstIndex(NameHits(s))))
            ELSE (IsIntLiteral(s) /\ InRange(IntOf(s)))
                    => ret.out = Returned(Found(IntOf(s)))

\* C2: form(n) returns forms[n-1] when 1 <= n <= len(forms) and None, without
\* raising, for every other integer; a string identifier that matches no id and no
\* name and is not an in-range integer also returns None without raising.
C2_FormNotFound ==
    FormDone =>
        IF ret.formname.isint
        THEN ret.out = Returned(IF InRange(ret.formname.n) THEN Found(ret.formname.n)
                                ELSE NotFound)
        ELSE LET s == ret.formname.s
             IN  (IdHits(s) = {} /\ NameHits(s) = {}
                    /\ ~(IsIntLiteral(s) /\ InRange(IntOf(s))))
                 => ret.out = Returned(NotFound)

OrphanControls(T) == SelectSeq(doc, LAMBDA n : n.tag \in T)
DocForms == SelectSeq(doc, IsForm)

\* forms is one synthetic form holding exactly the stray controls with a tag in T,
\* in document order, followed by the document's forms; or just the document's
\* forms when there is no such control
FormsBuiltFrom(T) ==
    IF OrphanControls(T) = <<>> THEN forms = DocForms
    ELSE /\ Len(forms) = Len(DocForms) + 1
         /\ forms[1].tag = "form"
         /\ forms[1].children = OrphanControls(T)
         /\ \A i \in 1..Len(DocForms) : forms[i + 1] = DocForms[i]

\* C8 as stated: the synthetic first form holds the input, select, textarea and
\* button elements that have no form ancestor; forms is not changed by later calls.
C8_Original == FormsBuiltFrom({"input", "select", "textarea", "button"})

\* C8 as amended: the synthetic first form holds exactly the input elements that
\* have no form ancestor, in document order, followed by the document's forms
\* (select, textarea and button elements outside a form are not collected); without
\* such an input, forms is the document's forms; calls to form() and find_link()
\* leave forms as it was.
C8_OrphanInputs == FormsBuiltFrom({"input"})

C8_Witness ==
    /\ ret.out.exc # "pending"
    /\ \E i, j \in 1..Len(doc) : i < j /\ IsForm(doc[i]) /\ doc[j].tag = "input"
    /\ \E i \in 1..Len(doc) : doc[i].tag = "select"
    /\ forms[1].children = OrphanControls({"input"})
    /\ Len(forms) = 2

\* pages of anchors
InitLinks ==
    /\ doc \in Str(AnchorNodes, MaxAnchors)
    /\ forms = ResultWrapperForms(doc)
    /\ controls = <<>>
    /\ ret \in LinkCalls(Patterns) \cup {[op |-> "form", formname |-> [isint |-> TRUE, n |-> 1],
                                        out |-> Pending]}

SpecLinks == InitLinks /\ [][NextWrapper]_vars

LinkDone == ret.op = "find_link" /\ ret.out.exc # "pending"

Anchors == SelectSeq(doc, LAMBDA n : n.tag = "a")

\* the links whose text or whose href the pattern matches
LinkHits(pattern) ==
    {i \in 1..Len(Anchors) :
        \/ Anchors[i].text # None /\ Matches(pattern, Anchors[i].text)
        \/ Anchors[i].href # None /\ Matches(pattern, Anchors[i].href)}

\* C10: for a pattern that is a regular expression, find_link(pattern) returns the
\* href of the first link, in document order, whose text or href the pattern
\* matches as a search, and the empty string when no link matches.
C10_FindLink ==
    (LinkDone /\ Compiles(ret.pattern)) =>
        ret.out = Returned(IF LinkHits(ret.pattern) = {} THEN <<>>
                           ELSE Anchors[FirstIndex(LinkHits(ret.pattern))].href)

====
